---- MODULE Spec2Model ----
(***************************************************************************)
(* KNNObjectClassifier / AdaptiveKNNClassifier (src/src/knn_classifier.py) *)
(* and the threshold endpoint of the API server (src/python/api_server.py).*)
(*                                                                         *)
(* Numbers.  Cosine similarities and distances are counted in units of     *)
(* 1/One: embeddings are integer vectors of Euclidean norm 5, so twice the *)
(* dot product of two of them is 50 times their cosine, and One is even so *)
(* that 0.5 is a whole number of units.  A numpy float is a fraction       *)
(* [n, d] with d >= 0; d = 0 encodes the IEEE values a division by zero    *)
(* produces: n > 0 is +inf, n < 0 is -inf, n = 0 is nan.                   *)
(***************************************************************************)
EXTENDS Integers, Sequences, FiniteSets, TLC

VARIABLES
    knn_classifier,  \* the classifier object: a record of its fields
    disk,            \* the archive stored at model_path, or NoFile
    ret,             \* the last call: its name, arguments and outcome
    vote,            \* inputs of the voting step of predict, when it is checked alone
    inserted,        \* how many samples were ever appended (numbers the samples)
    lock,            \* the RLock: its owner and recursion count
    pc               \* the position of every thread in the operation it executes

vars == <<knn_classifier, disk, ret, vote, inserted, lock, pc>>

---------------------------------------------------------------------------
\* Bounds of the model.
MaxAdds == 2        \* samples ever inserted in one run
MaxCap == 1         \* largest configured max_samples_per_class
MaxK == 2           \* largest configured n_neighbors
VoteK == 3          \* most neighbours in a vote checked alone
MaxImages == 152    \* samples ever inserted in a run that loads directories
LiveAdds == 1       \* samples ever inserted in a run checked for progress

\* Program constants.
initial_size == 100        \* initial and reset capacity
ResNetDim == 512           \* length of the vector extract_embedding returns
DefaultThreshold == 30     \* 0.6, the default confidence_threshold, in units of 1/One
DefaultMaxSamples == 100   \* the default max_samples_per_class
DefaultNeighbors == 3      \* the default n_neighbors

One == 2 * 5 * 5           \* 1.0 in similarity, distance and threshold units

NoFile == [exists |-> FALSE]
Unknown == "unknown"
None == "None"

\* Labels in lexical order, as np.unique sorts them.
LabelOrder == <<"apple", "banana", "cherry">>
Labels == {"apple", "banana"}

\* L2-normalised embeddings the extractor can return (norm 5 = 1.0).
Embeddings == {<<5, 0>>, <<0, 5>>, <<-5, 0>>}
\* an image extract_embedding raises on: an array Image.fromarray cannot
\* handle, such as one of 16-bit pixels
Unreadable == <<>>

Min(a, b) == IF a <= b THEN a ELSE b
Max(a, b) == IF a >= b THEN a ELSE b
Range(s) == {s[i] : i \in 1..Len(s)}

RECURSIVE SumSeq(_)
SumSeq(s) == IF s = <<>> THEN 0 ELSE s[1] + SumSeq(Tail(s))

RECURSIVE SelectIdx(_, _, _)
\* the indices i in from..n with keep[i], in increasing order (the range is
\* halved so that long buffers do not nest deeply)
SelectIdx(keep, n, from) ==
    IF from > n THEN <<>>
    ELSE IF from = n THEN (IF keep[n] THEN <<n>> ELSE <<>>)
    ELSE LET mid == (from + n) \div 2
         IN  SelectIdx(keep, mid, from) \o SelectIdx(keep, n, mid + 1)

---------------------------------------------------------------------------
\* numpy floating point values

Sign(a) == IF a > 0 THEN 1 ELSE IF a < 0 THEN -1 ELSE 0
Float(a, b) == [n |-> a, d |-> b]
Zero == Float(0, 1)
IsNaN(x) == x.d = 0 /\ x.n = 0
IsFinite(x) == x.d > 0

\* a / b for two float sums a and b (counted in the same unit)
Div(a, b) ==
    IF b > 0 THEN Float(a, b)
    ELSE IF b < 0 THEN Float(-a, -b)
    ELSE Float(Sign(a), 0)

\* x * (s / One)
Times(x, s) ==
    IF x.d = 0 THEN Float(Sign(x.n * s), 0) ELSE Float(x.n * s, x.d * One)

\* x > y
Gt(x, y) ==
    IF IsNaN(x) \/ IsNaN(y) THEN FALSE
    ELSE IF x.d = 0 /\ y.d = 0 THEN x.n > y.n
    ELSE x.n * y.d > y.n * x.d

\* x > t / One: the comparison the comment on Recognition.is_known describes
GtThreshold(x, t) ==
    IF IsNaN(x) THEN FALSE
    ELSE IF x.d = 0 THEN x.n > 0
    ELSE x.n * One > t * x.d

\* x >= t / One
GeThreshold(x, t) ==
    IF IsNaN(x) THEN FALSE
    ELSE IF x.d = 0 THEN x.n > 0
    ELSE x.n * One >= t * x.d

\* cosine distance of two normalised embeddings
CosineDistance(a, b) == One - 2 * (a[1] * b[1] + a[2] * b[2])

---------------------------------------------------------------------------
\* predict: the weighted vote over the neighbours kneighbors returned

\* np.unique of a label array: its distinct labels in sorted order
RECURSIVE UniqueFrom(_, _)
UniqueFrom(present, i) ==
    IF i > Len(LabelOrder) THEN <<>>
    ELSE (IF LabelOrder[i] \in present THEN <<LabelOrder[i]>> ELSE <<>>)
         \o UniqueFrom(present, i + 1)
Unique(labels) == UniqueFrom(Range(labels), 1)

\* every neighbour one vote: the weights of a majority vote
UnitVotes(neighbor_distances) ==
    [i \in 1..Len(neighbor_distances) |-> One]

\* similarities = 1 - neighbor_distances
Similarities(neighbor_distances) ==
    [i \in 1..Len(neighbor_distances) |-> One - neighbor_distances[i]]

\* np.sum(similarities[neighbor_labels == label])
MaskedSum(neighbor_labels, similarities, label) ==
    SumSeq([i \in 1..Len(similarities) |->
               IF neighbor_labels[i] = label THEN similarities[i] ELSE 0])

AllScores(neighbor_labels, neighbor_distances, unique_labels) ==
    LET similarities == Similarities(neighbor_distances)
    IN  [label \in Range(unique_labels) |->
            IF \E i \in 1..Len(neighbor_labels) : neighbor_labels[i] = label
            THEN Div(MaskedSum(neighbor_labels, similarities, label), SumSeq(similarities))
            ELSE Zero]

\* max(all_scores.keys(), key=...): the first key no later key is greater than
RECURSIVE MaxKey(_, _, _)
MaxKey(all_scores, keys, best) ==
    IF keys = <<>> THEN best
    ELSE MaxKey(all_scores, Tail(keys),
                IF Gt(all_scores[keys[1]], all_scores[best]) THEN keys[1] ELSE best)

PredLabel(all_scores, unique_labels) ==
    IF unique_labels = <<>> THEN Unknown
    ELSE MaxKey(all_scores, Tail(unique_labels), unique_labels[1])

\* an adjustment that starts at a distance of 0.5 instead of above it
ConfidenceFromHalf(all_scores, unique_labels, neighbor_distances) ==
    IF unique_labels = <<>> THEN Zero
    ELSE LET score == all_scores[PredLabel(all_scores, unique_labels)]
         IN  IF 2 * neighbor_distances[1] >= One
             THEN Times(score, One - neighbor_distances[1])
             ELSE score

\* the confidence adjustment by the distance of the nearest neighbour
Confidence(all_scores, unique_labels, neighbor_distances) ==
    IF unique_labels = <<>> THEN Zero
    ELSE LET score == all_scores[PredLabel(all_scores, unique_labels)]
         IN  IF 2 * neighbor_distances[1] > One
             THEN Times(score, One - neighbor_distances[1])
             ELSE score

PredictVote(neighbor_labels, neighbor_distances, unique_labels, threshold, embedding) ==
    LET all_scores == AllScores(neighbor_labels, neighbor_distances, unique_labels)
        pred_label == PredLabel(all_scores, unique_labels)
        confidence == Confidence(all_scores, unique_labels, neighbor_distances)
        is_known == GeThreshold(confidence, threshold)
    IN  [label |-> IF is_known THEN pred_label ELSE Unknown,
         confidence |-> confidence,
         all_scores |-> all_scores,
         embedding |-> embedding,
         is_known |-> is_known]

\* an untrained result whose is_known is computed like that of a trained one
UntrainedByThreshold ==
    [label |-> Unknown, confidence |-> Zero, all_scores |-> <<>>,
     embedding |-> <<>>, is_known |-> GeThreshold(Zero, knn_classifier.confidence_threshold)]

\* the result of predict on an untrained or empty classifier
UntrainedRecognition ==
    [label |-> Unknown, confidence |-> Zero, all_scores |-> <<>>,
     embedding |-> <<>>, is_known |-> FALSE]

---------------------------------------------------------------------------
\* The classifier object.  train is the active range X_train[:_actual_size],
\* y_train[:_actual_size] (x the embedding, y the label, id the insertion
\* number of the sample, kept to tell equal samples apart); buflen is
\* len(X_train); fit_X is the data the KNeighborsClassifier was last fitted on.

ActualSize(c) == Len(c.train)
Sample(embedding, label, id) == [x |-> embedding, y |-> label, id |-> id]
LabelsOf(train) == [i \in 1..Len(train) |-> train[i].y]
EmbeddingsOf(train) == [i \in 1..Len(train) |-> train[i].x]
Count(train, label) == Cardinality({i \in 1..Len(train) : train[i].y = label})

\* __init__ up to the load_model call that ends it
Construct(n_neighbors, confidence_threshold, max_samples_per_class, embedding_dim) ==
    [n_neighbors |-> n_neighbors,
     confidence_threshold |-> confidence_threshold,
     max_samples_per_class |-> max_samples_per_class,
     embedding_dim |-> embedding_dim,
     train |-> <<>>,
     buflen |-> 0,
     capacity |-> initial_size,
     trained |-> FALSE,
     fit_X |-> <<>>,
     feedback_history |-> <<>>,
     auto_save |-> TRUE,
     save_interval |-> 10]

\* label_indices[:-max_samples_per_class]: all but the last max indices of the
\* label; in Python -0 is 0, so a maximum of 0 selects nothing
RemoveIndices(train, label, max_samples_per_class) ==
    LET label_indices == SelectIdx([i \in 1..Len(train) |-> train[i].y = label], Len(train), 1)
    IN  IF max_samples_per_class = 0 THEN {}
        ELSE {label_indices[j] : j \in 1..(Len(label_indices) - max_samples_per_class)}

\* active[keep_mask]: the samples not removed, in their order
Compact(train, remove_indices) ==
    LET kept == SelectIdx([i \in 1..Len(train) |-> i \notin remove_indices], Len(train), 1)
    IN  [j \in 1..Len(kept) |-> train[kept[j]]]

\* _manage_memory: the loop over the labels counted before it.  active_y is a
\* view of the range as long as it was on entry, so once one label has been
\* compacted the masks of a later over-limit label no longer fit and numpy
\* raises IndexError.
RECURSIVE ManageLoop(_, _, _, _, _)
ManageLoop(train, labels, counted, n0, max_samples_per_class) ==
    IF labels = <<>> THEN [train |-> train, exc |-> ""]
    ELSE IF Count(counted, labels[1]) > max_samples_per_class
    THEN IF Len(train) # n0 THEN [train |-> train, exc |-> "IndexError"]
         ELSE ManageLoop(Compact(train, RemoveIndices(train, labels[1], max_samples_per_class)),
                         Tail(labels), counted, n0, max_samples_per_class)
    ELSE ManageLoop(train, Tail(labels), counted, n0, max_samples_per_class)

\* np.unique sorts the labels; None, the content of an object buffer nothing
\* wrote, cannot be compared with another label
UniqueRaises(labels) == Len(labels) >= 2 /\ None \in Range(labels)

ManageMemory(train, max_samples_per_class) ==
    IF Len(train) = 0 THEN [train |-> train, exc |-> ""]
    ELSE IF UniqueRaises(LabelsOf(train)) THEN [train |-> train, exc |-> "TypeError"]
    ELSE ManageLoop(train, Unique(LabelsOf(train)), train, Len(train), max_samples_per_class)

\* _retrain_knn
RetrainKNN(c) ==
    IF ActualSize(c) = 0 THEN c
    ELSE [c EXCEPT !.fit_X = EmbeddingsOf(c.train), !.trained = TRUE]

\* a growth that waits until the size has passed the buffer length
GrowLate(c) ==
    IF ActualSize(c) > c.buflen
    THEN LET new_size == IF ActualSize(c) > 0
                         THEN Max(c.capacity, ActualSize(c) * 2)
                         ELSE c.capacity
         IN  [c EXCEPT !.buflen = new_size, !.capacity = new_size]
    ELSE c

\* a growth by one row, forgetting the recorded capacity
GrowByOne(c) ==
    IF ActualSize(c) >= c.buflen
    THEN [c EXCEPT !.buflen = ActualSize(c) + 1, !.capacity = ActualSize(c) + 1]
    ELSE c

\* the buffer growth at the head of add_sample
Grow(c) ==
    IF ActualSize(c) >= c.buflen
    THEN LET new_size == IF ActualSize(c) > 0
                         THEN Max(c.capacity, ActualSize(c) * 2)
                         ELSE c.capacity
         IN  [c EXCEPT !.buflen = new_size, !.capacity = new_size]
    ELSE c

\* add_sample up to the increment of _actual_size: the object after it and
\* the exception raised, if any.  extract_embedding comes first and raises
\* before anything is assigned; it returns ResNetDim numbers whatever
\* embedding_dim is, and the row assignment raises ValueError when the two
\* differ.
AppendSample(c, embedding, label, id) ==
    LET grown == Grow(c) IN
    IF embedding = Unreadable THEN [c |-> c, exc |-> "TypeError"]
    ELSE IF c.embedding_dim # ResNetDim THEN [c |-> grown, exc |-> "ValueError"]
    ELSE [c |-> [grown EXCEPT !.train = Append(@, Sample(embedding, label, id))],
          exc |-> ""]

\* a rest of add_sample that fits the index whenever retrain is asked for
ManageAndRetrainAlways(c, retrain) ==
    LET managed == ManageMemory(c.train, c.max_samples_per_class)
        pruned == [c EXCEPT !.train = managed.train]
    IN  IF managed.exc # "" THEN [c |-> pruned, exc |-> managed.exc]
        ELSE IF retrain
        THEN [c |-> RetrainKNN(pruned), exc |-> ""]
        ELSE [c |-> pruned, exc |-> ""]

\* the rest of add_sample: _manage_memory and the conditional _retrain_knn
ManageAndRetrain(c, retrain) ==
    LET managed == ManageMemory(c.train, c.max_samples_per_class)
        pruned == [c EXCEPT !.train = managed.train]
    IN  IF managed.exc # "" THEN [c |-> pruned, exc |-> managed.exc]
        ELSE IF retrain /\ ActualSize(pruned) >= pruned.n_neighbors
        THEN [c |-> RetrainKNN(pruned), exc |-> ""]
        ELSE [c |-> pruned, exc |-> ""]

\* add_sample as one call
AddSample(c, embedding, label, retrain, id) ==
    LET appended == AppendSample(c, embedding, label, id)
    IN  IF appended.exc # "" THEN appended
        ELSE ManageAndRetrain(appended.c, retrain)

---------------------------------------------------------------------------
\* predict

\* kneighbors(query, n_neighbors=k) on the fitted data: k distinct indices in
\* order of distance, none farther than a sample left out.  Which of several
\* equidistant samples comes first is left to the sort.
KNeighbors(fit_X, query, k) ==
    LET n == Len(fit_X)
        dist(i) == CosineDistance(fit_X[i], query)
    IN  {idx \in [1..k -> 1..n] :
            /\ \A i, j \in 1..k : i < j => idx[i] # idx[j] /\ dist(idx[i]) <= dist(idx[j])
            /\ \A m \in 1..n : (\A i \in 1..k : idx[i] # m) => dist(idx[k]) <= dist(m)}

\* predict once kneighbors has returned indices
PredictWith(c, query, indices) ==
    IF \E i \in 1..Len(indices) : indices[i] > ActualSize(c)
    THEN [exc |-> "IndexError", value |-> <<>>]
    ELSE [exc |-> "",
          value |-> PredictVote([i \in 1..Len(indices) |-> c.train[indices[i]].y],
                                [i \in 1..Len(indices) |-> CosineDistance(c.fit_X[indices[i]], query)],
                                Unique(LabelsOf(c.train)),
                                c.confidence_threshold,
                                query)]

\* every outcome predict can have: a Recognition, or the exception raised
Predict(c, query) ==
    IF ~c.trained \/ ActualSize(c) = 0
    THEN {[exc |-> "", value |-> UntrainedRecognition]}
    ELSE IF query = Unreadable
    THEN {[exc |-> "TypeError", value |-> <<>>]}
    ELSE LET k == Min(c.n_neighbors, ActualSize(c))
         IN  IF k > Len(c.fit_X)
             THEN {[exc |-> "ValueError", value |-> <<>>]}
             ELSE {PredictWith(c, query, indices) : indices \in KNeighbors(c.fit_X, query, k)}

---------------------------------------------------------------------------
\* persistence

\* save_model: the archive written
SaveModel(c) ==
    [exists |-> TRUE,
     X_train |-> c.train,
     n_neighbors |-> c.n_neighbors,
     confidence_threshold |-> c.confidence_threshold,
     max_samples_per_class |-> c.max_samples_per_class,
     embedding_dim |-> c.embedding_dim,
     actual_size |-> ActualSize(c)]

\* the rows of a buffer np.empty allocated and nothing wrote
Uninitialized(n, garbage) ==
    [i \in 1..n |-> Sample(garbage[i], None, 0)]

\* what the rows of a buffer np.empty allocated for the archive may hold:
\* any numbers, here zeros or what looks like an embedding
Garbage(file) ==
    [1..(IF file.exists THEN Len(file.X_train) ELSE 0) -> {<<0, 0>>, <<5, 0>>}]

\* a load that starts by clearing the store and gives up
LoadModelClearing(c, file, garbage) ==
    [c |-> [c EXCEPT !.train = <<>>, !.buflen = 0, !.fit_X = <<>>, !.trained = FALSE],
     value |-> FALSE]

\* the garbage a load_model of the file into c can meet: rows stay unwritten
\* only when the copy of the archive's rows fails
GarbageFor(c, file) ==
    IF file.exists /\ file.embedding_dim # c.embedding_dim THEN Garbage(file) ELSE {<<>>}

\* load_model: the object after the call and the value returned.  The three
\* hyperparameters, the size and the capacity are assigned before the rows are
\* copied; the copy raises when the archive's rows are not embedding_dim long,
\* and the fit that follows raises on labels that are None.  Either exception
\* is caught and answered with False.
LoadModel(c, file, garbage) ==
    IF ~file.exists THEN [c |-> c, value |-> FALSE]
    ELSE LET size == Len(file.X_train)
             cap == Max(initial_size, size * 2)
             assigned == [c EXCEPT !.n_neighbors = file.n_neighbors,
                                   !.confidence_threshold = file.confidence_threshold,
                                   !.max_samples_per_class = file.max_samples_per_class,
                                   !.capacity = cap,
                                   !.buflen = cap]
         IN  IF size > 0 /\ file.embedding_dim # c.embedding_dim
             THEN [c |-> [assigned EXCEPT !.train = Uninitialized(size, garbage)],
                   value |-> FALSE]
             ELSE LET loaded == [assigned EXCEPT !.train = file.X_train]
                  IN  IF size > 0 /\ None \in Range(LabelsOf(loaded.train))
                      THEN [c |-> loaded, value |-> FALSE]
                      ELSE [c |-> RetrainKNN(loaded), value |-> TRUE]

\* a reset that also empties the feedback ledger
ResetWithLedger(c) ==
    [c EXCEPT !.train = <<>>, !.buflen = 0, !.capacity = 100,
              !.fit_X = <<>>, !.trained = FALSE, !.feedback_history = <<>>]

\* a reset that empties the buffers and keeps the fitted index
ResetKeepingIndex(c) ==
    [c EXCEPT !.train = <<>>, !.buflen = 0, !.capacity = 100]

\* reset
Reset(c) ==
    [c EXCEPT !.train = <<>>, !.buflen = 0, !.capacity = 100,
              !.fit_X = <<>>, !.trained = FALSE]

\* update_confidence_threshold
UpdateConfidenceThreshold(c, threshold) ==
    [c EXCEPT !.confidence_threshold = threshold]

\* a ledger that records corrections only: nothing when the prediction was right
RecordCorrection(c, predicted_label, correct_label, source, now) ==
    IF predicted_label = correct_label THEN c
    ELSE [c EXCEPT !.feedback_history =
             Append(@, [predicted |-> predicted_label, correct |-> correct_label,
                        source |-> source, timestamp |-> now])]

\* add_feedback_sample: the FeedbackRecord appended once add_sample returned
RecordFeedback(c, predicted_label, correct_label, source, now) ==
    [c EXCEPT !.feedback_history =
        Append(@, [predicted |-> predicted_label, correct |-> correct_label,
                   source |-> source, timestamp |-> now])]

\* add_feedback_sample: the auto-save test, on the length of the buffer
AutoSaveDue(c) == c.auto_save /\ c.buflen % c.save_interval = 0

\* the range check of PUT /model/confidence: TRUE when the request is refused
RejectsThreshold(threshold) == ~(0 <= threshold /\ threshold <= One)

---------------------------------------------------------------------------
\* feedback, accessors and bulk loading

\* an add_feedback_sample that records the correction whether or not
\* add_sample raised
AddFeedbackSampleRecordingFailures(c, file, embedding, predicted_label, correct_label, id) ==
    LET added == AddSample(c, embedding, correct_label, TRUE, id)
        recorded == RecordFeedback(added.c, predicted_label, correct_label, "user", id)
    IN  IF AutoSaveDue(recorded) /\ added.exc = ""
        THEN [c |-> recorded, disk |-> SaveModel(recorded), exc |-> added.exc, saved |-> TRUE]
        ELSE [c |-> recorded, disk |-> file, exc |-> added.exc, saved |-> FALSE]

\* add_feedback_sample as one call: add_sample(image, correct_label), the
\* FeedbackRecord, and save_model when the auto-save test passes.  An
\* exception of add_sample leaves the method before the record is appended.
AddFeedbackSample(c, file, embedding, predicted_label, correct_label, id) ==
    LET added == AddSample(c, embedding, correct_label, TRUE, id)
    IN  IF added.exc # ""
        THEN [c |-> added.c, disk |-> file, exc |-> added.exc, saved |-> FALSE]
        ELSE LET recorded == RecordFeedback(added.c, predicted_label, correct_label, "user", id)
             IN  IF AutoSaveDue(recorded)
                 THEN [c |-> recorded, disk |-> SaveModel(recorded), exc |-> "", saved |-> TRUE]
                 ELSE [c |-> recorded, disk |-> file, exc |-> "", saved |-> FALSE]

\* get_known_classes: the sorted labels of a trained store, else the empty list
GetKnownClasses(c) ==
    IF c.trained /\ ActualSize(c) > 0
    THEN IF UniqueRaises(LabelsOf(c.train))
         THEN [exc |-> "TypeError", value |-> <<>>]
         ELSE [exc |-> "", value |-> Unique(LabelsOf(c.train))]
    ELSE [exc |-> "", value |-> <<>>]

\* get_sample_count: the number of active samples of every label present
GetSampleCount(c) ==
    [label \in Range(LabelsOf(c.train)) |-> Count(c.train, label)]

\* statistics that count the corrections, the records with predicted # correct
GetCorrectionStats(c) ==
    IF c.feedback_history = <<>> THEN <<>>
    ELSE LET total == Len(c.feedback_history)
             wrong == Cardinality({i \in 1..total :
                          c.feedback_history[i].predicted # c.feedback_history[i].correct})
         IN  [total_feedback |-> total,
              correct_predictions |-> wrong,
              accuracy |-> Float(wrong, total),
              unique_corrections |->
                  Cardinality({c.feedback_history[i].correct : i \in 1..total})]

\* get_accuracy_stats: {} on an empty ledger, else the four statistics
GetAccuracyStats(c) ==
    IF c.feedback_history = <<>> THEN <<>>
    ELSE LET total == Len(c.feedback_history)
             correct == Cardinality({i \in 1..total :
                            c.feedback_history[i].predicted = c.feedback_history[i].correct})
         IN  [total_feedback |-> total,
              correct_predictions |-> correct,
              accuracy |-> IF total > 0 THEN Float(correct, total) ELSE Zero,
              unique_corrections |->
                  Cardinality({c.feedback_history[i].correct : i \in 1..total})]

\* add_samples_from_directory on a directory holding one class folder of n
\* readable images: add_sample for each, an exception logged and the loop
\* continued.  The i-th image is sample number id + i.
RECURSIVE AddSamplesFromDirectory(_, _, _, _, _)
AddSamplesFromDirectory(c, embedding, class_name, n, id) ==
    IF n = 0 THEN c
    ELSE CHOOSE after \in {AddSamplesFromDirectory(added, embedding, class_name, n - 1, id + 1) :
                              added \in {AddSample(c, embedding, class_name, TRUE, id + 1).c}} :
             TRUE

---------------------------------------------------------------------------
\* Calls on one classifier, one after the other.

Thresholds == {0 - 5, 0, 2 * One}
EmbeddingDims == {ResNetDim, ResNetDim \div 2}
\* the one embedding of calls whose image does not matter
ConcEmbeddings == {<<5, 0>>}
\* the embeddings of the samples stored before a save
PersistEmbeddings == {<<5, 0>>, <<0, 5>>}
\* the arguments a restarted process constructs its classifier with
RestartNeighbors == {1, 2}
RestartCaps == {0, 1}
Idle == <<>>
Unlocked == [owner |-> 0, count |-> 0]
NoVote == <<>>

Call(op, arg, exc, value) == [op |-> op, arg |-> arg, exc |-> exc, value |-> value]

\* the state once __init__ has returned: no archive at model_path yet, so the
\* load_model call that ends __init__ found nothing
Init ==
    /\ knn_classifier \in {Construct(k, DefaultThreshold, m, ResNetDim) :
                              k \in 1..MaxK, m \in 0..MaxCap}
    /\ disk = NoFile
    /\ ret = Call("__init__", <<>>, "", FALSE)
    /\ vote = NoVote
    /\ inserted = 0
    /\ lock = Unlocked
    /\ pc = Idle

add_sample(embedding, label, retrain) ==
    /\ inserted < MaxAdds
    /\ LET r == AddSample(knn_classifier, embedding, label, retrain, inserted + 1)
       IN  /\ knn_classifier' = r.c
           /\ ret' = Call("add_sample", <<embedding, label, retrain>>, r.exc, <<>>)
    /\ inserted' = inserted + 1
    /\ UNCHANGED <<disk, vote, lock, pc>>

predict(query) ==
    /\ \E r \in Predict(knn_classifier, query) :
           ret' = Call("predict", <<query>>, r.exc, r.value)
    /\ UNCHANGED <<knn_classifier, disk, vote, inserted, lock, pc>>

save_model ==
    /\ disk' = SaveModel(knn_classifier)
    /\ ret' = Call("save_model", <<>>, "", <<>>)
    /\ UNCHANGED <<knn_classifier, vote, inserted, lock, pc>>

load_model ==
    /\ \E garbage \in GarbageFor(knn_classifier, disk) :
           LET r == LoadModel(knn_classifier, disk, garbage)
           IN  /\ knn_classifier' = r.c
               /\ ret' = Call("load_model", <<>>, "", r.value)
    /\ UNCHANGED <<disk, vote, inserted, lock, pc>>

reset ==
    /\ knn_classifier' = Reset(knn_classifier)
    /\ ret' = Call("reset", <<>>, "", <<>>)
    /\ UNCHANGED <<disk, vote, inserted, lock, pc>>

update_confidence_threshold(threshold) ==
    /\ knn_classifier' = UpdateConfidenceThreshold(knn_classifier, threshold)
    /\ ret' = Call("update_confidence_threshold", <<threshold>>, "", <<>>)
    /\ UNCHANGED <<disk, vote, inserted, lock, pc>>

\* PUT /model/confidence of the API server
put_model_confidence(threshold) ==
    /\ IF RejectsThreshold(threshold)
       THEN /\ ret' = Call("put_model_confidence", <<threshold>>, "HTTPException", 400)
            /\ UNCHANGED knn_classifier
       ELSE /\ knn_classifier' = UpdateConfidenceThreshold(knn_classifier, threshold)
            /\ ret' = Call("put_model_confidence", <<threshold>>, "", "success")
    /\ UNCHANGED <<disk, vote, inserted, lock, pc>>

\* the process starts again on the same model_path: __init__ of a new
\* AdaptiveKNNClassifier and the load_model that ends it
restart(n_neighbors, max_samples_per_class, embedding_dim) ==
    /\ \E garbage \in GarbageFor(Construct(n_neighbors, DefaultThreshold,
                                           max_samples_per_class, embedding_dim), disk) :
           LET r == LoadModel(Construct(n_neighbors, DefaultThreshold,
                                        max_samples_per_class, embedding_dim),
                              disk, garbage)
           IN  /\ knn_classifier' = r.c
               /\ ret' = Call("__init__", <<n_neighbors, max_samples_per_class, embedding_dim>>,
                              "", r.value)
    /\ UNCHANGED <<disk, vote, inserted, lock, pc>>

add_feedback_sample(embedding, predicted_label, correct_label) ==
    /\ inserted < MaxAdds
    /\ LET r == AddFeedbackSample(knn_classifier, disk, embedding, predicted_label,
                                  correct_label, inserted + 1)
       IN  /\ knn_classifier' = r.c
           /\ disk' = r.disk
           /\ ret' = Call("add_feedback_sample", <<embedding, predicted_label, correct_label>>,
                          r.exc, r.saved)
    /\ inserted' = inserted + 1
    /\ UNCHANGED <<vote, lock, pc>>

get_known_classes ==
    /\ LET r == GetKnownClasses(knn_classifier)
       IN  ret' = Call("get_known_classes", <<>>, r.exc, r.value)
    /\ UNCHANGED <<knn_classifier, disk, vote, inserted, lock, pc>>

get_sample_count ==
    /\ ret' = Call("get_sample_count", <<>>, "", GetSampleCount(knn_classifier))
    /\ UNCHANGED <<knn_classifier, disk, vote, inserted, lock, pc>>

get_accuracy_stats ==
    /\ ret' = Call("get_accuracy_stats", <<>>, "", GetAccuracyStats(knn_classifier))
    /\ UNCHANGED <<knn_classifier, disk, vote, inserted, lock, pc>>

add_samples_from_directory(class_name, n) ==
    /\ inserted + n <= MaxImages
    /\ knn_classifier' = AddSamplesFromDirectory(knn_classifier, <<5, 0>>, class_name,
                                                 n, inserted)
    /\ ret' = Call("add_samples_from_directory", <<class_name, n>>, "", <<>>)
    /\ inserted' = inserted + n
    /\ UNCHANGED <<disk, vote, lock, pc>>

Next ==
    \/ \E embedding \in Embeddings, label \in Labels, retrain \in BOOLEAN :
           add_sample(embedding, label, retrain)
    \/ \E query \in Embeddings : predict(query)
    \/ reset
    \/ \E threshold \in Thresholds : update_confidence_threshold(threshold)
    \/ \E threshold \in Thresholds : put_model_confidence(threshold)

Spec == Init /\ [][Next]_vars

\* Calls that store and load the archive.
NextPersist ==
    \/ \E embedding \in PersistEmbeddings, label \in Labels, retrain \in BOOLEAN :
           add_sample(embedding, label, retrain)
    \/ save_model
    \/ load_model
    \/ reset
    \/ \E k \in RestartNeighbors, m \in RestartCaps, dim \in EmbeddingDims :
           restart(k, m, dim)

SpecPersist == Init /\ [][NextPersist]_vars

\* Calls of the feedback loop and the accessors.
NextFeedback ==
    \/ \E embedding \in ConcEmbeddings, predicted_label \in Labels, correct_label \in Labels :
           add_feedback_sample(embedding, predicted_label, correct_label)
    \/ \E embedding \in ConcEmbeddings, label \in Labels, retrain \in BOOLEAN :
           add_sample(embedding, label, retrain)
    \/ \E query \in ConcEmbeddings : predict(query)
    \/ save_model
    \/ load_model
    \/ reset
    \/ get_known_classes
    \/ get_sample_count
    \/ get_accuracy_stats

SpecFeedback == Init /\ [][NextFeedback]_vars

\* Stores that fill their buffer: directories of DirectorySizes images of one
\* class loaded into a classifier with the default per-class maximum.
DirectorySizes == {initial_size \div 2, initial_size \div 2 + 1}

InitGrowth ==
    /\ knn_classifier = Construct(1, DefaultThreshold, DefaultMaxSamples, ResNetDim)
    /\ disk = NoFile
    /\ ret = Call("__init__", <<>>, "", FALSE)
    /\ vote = NoVote
    /\ inserted = 0
    /\ lock = Unlocked
    /\ pc = Idle

NextGrowth ==
    \/ \E label \in Labels, retrain \in BOOLEAN : add_sample(<<5, 0>>, label, retrain)
    \/ \E n \in DirectorySizes : add_samples_from_directory("apple", n)
    \/ save_model
    \/ load_model
    \/ reset

SpecGrowth == InitGrowth /\ [][NextGrowth]_vars

\* Calls that fail: images the extractor raises on, and classifiers constructed
\* with an embedding_dim the extractor does not produce.
FailingImages == ConcEmbeddings \cup {Unreadable}

NextFailing ==
    \/ \E image \in FailingImages, label \in Labels, retrain \in BOOLEAN :
           add_sample(image, label, retrain)
    \/ \E image \in FailingImages, predicted_label \in Labels, correct_label \in Labels :
           add_feedback_sample(image, predicted_label, correct_label)
    \/ save_model
    \/ \E m \in RestartCaps, dim \in EmbeddingDims : restart(1, m, dim)

SpecFailing == Init /\ [][NextFailing]_vars

---------------------------------------------------------------------------
\* The API server (src/python/api_server.py): one AdaptiveKNNClassifier, loaded
\* from the archive at model_path, which a training process rewrites.  ret is
\* the last response: exc is "HTTPException" and value the status code when
\* the request was refused.

\* request bytes Image.open rejects
Undecodable == <<0>>
\* the images of a prediction request
ApiImages == ConcEmbeddings \cup {Unreadable, Undecodable}
\* the confidence_threshold field of a prediction request: absent, 0.0 or 1.0
Overrides == {<<>>, <<0>>, <<One>>}

RECURSIVE Trained(_, _, _)
\* the classifier of the training process after add_sample of every sample
Trained(c, samples, id) ==
    IF samples = <<>> THEN c
    ELSE Trained(AddSample(c, samples[1][1], samples[1][2], TRUE, id + 1).c,
                 Tail(samples), id + 1)

\* the archives the training process can have saved
Archives ==
    {SaveModel(Trained(Construct(k, DefaultThreshold, DefaultMaxSamples, ResNetDim), samples, 0)) :
        k \in 1..MaxK,
        samples \in UNION {[1..n -> ConcEmbeddings \X Labels] : n \in 0..MaxAdds}}

\* _load_model: the classifier is constructed, which loads the archive, and
\* loads it once more when the file exists
ServerStart(file) ==
    LET constructed == LoadModel(Construct(DefaultNeighbors, DefaultThreshold,
                                           DefaultMaxSamples, ResNetDim), file, <<>>).c
    IN  IF file.exists THEN LoadModel(constructed, file, <<>>).c ELSE constructed

PredictionResponse(recognition) ==
    [label |-> recognition.label,
     confidence |-> recognition.confidence,
     is_known |-> recognition.is_known,
     all_scores |-> recognition.all_scores]

\* POST /predict and POST /predict/upload: every outcome of the handler, the
\* classifier it leaves and the response.  The threshold of the request is
\* assigned before predict is called and the old one assigned back after it
\* returned; an exception of predict goes to the except clause in between.
PredictImage(c, image, override) ==
    IF ~c.trained THEN {[c |-> c, exc |-> "HTTPException", value |-> 503]}
    ELSE IF image = Undecodable THEN {[c |-> c, exc |-> "HTTPException", value |-> 400]}
    ELSE LET overridden == IF override # <<>>
                           THEN [c EXCEPT !.confidence_threshold = override[1]]
                           ELSE c
         IN  {IF r.exc # ""
              THEN [c |-> overridden, exc |-> "HTTPException", value |-> 400]
              ELSE [c |-> IF override # <<>>
                          THEN [overridden EXCEPT !.confidence_threshold = c.confidence_threshold]
                          ELSE overridden,
                    exc |-> "",
                    value |-> PredictionResponse(r.value)] :
                 r \in Predict(overridden, image)}

\* GET /
HealthCheck(c) ==
    LET known == GetKnownClasses(c)
    IN  IF known.exc # "" THEN [exc |-> known.exc, value |-> 500]
        ELSE [exc |-> "",
              value |-> [status |-> "healthy",
                         model_loaded |-> c.trained,
                         known_classes_count |-> Len(known.value),
                         total_samples |-> c.buflen]]

\* GET /model/stats
GetModelStats(c) ==
    LET known == GetKnownClasses(c)
    IN  IF known.exc # "" THEN [exc |-> known.exc, value |-> 500]
        ELSE [exc |-> "",
              value |-> [known_classes |-> known.value,
                         total_samples |-> c.buflen,
                         sample_counts |-> GetSampleCount(c),
                         confidence_threshold |-> c.confidence_threshold,
                         model_trained |-> c.trained]]

\* POST /model/reload
ReloadModel(c, file, garbage) ==
    LET r == LoadModel(c, file, garbage)
        known == GetKnownClasses(r.c)
    IN  IF r.value /\ known.exc = ""
        THEN [c |-> r.c, exc |-> "",
              value |-> [status |-> "success",
                         known_classes |-> known.value,
                         total_samples |-> r.c.buflen]]
        ELSE [c |-> r.c, exc |-> "HTTPException", value |-> 500]

InitApi ==
    /\ disk \in Archives \cup {NoFile}
    /\ knn_classifier = ServerStart(disk)
    /\ ret = Call("__init__", <<>>, "", disk.exists)
    /\ vote = NoVote
    /\ inserted = 0
    /\ lock = Unlocked
    /\ pc = Idle

\* the training process saves its model at model_path
write_archive(archive) ==
    /\ disk' = archive
    /\ UNCHANGED <<knn_classifier, ret, vote, inserted, lock, pc>>

health_check ==
    /\ LET r == HealthCheck(knn_classifier)
       IN  ret' = Call("health_check", <<>>, r.exc, r.value)
    /\ UNCHANGED <<knn_classifier, disk, vote, inserted, lock, pc>>

get_model_stats ==
    /\ LET r == GetModelStats(knn_classifier)
       IN  ret' = Call("get_model_stats", <<>>, r.exc, r.value)
    /\ UNCHANGED <<knn_classifier, disk, vote, inserted, lock, pc>>

reload_model ==
    /\ \E garbage \in GarbageFor(knn_classifier, disk) :
           LET r == ReloadModel(knn_classifier, disk, garbage)
           IN  /\ knn_classifier' = r.c
               /\ ret' = Call("reload_model", <<>>, r.exc, r.value)
    /\ UNCHANGED <<disk, vote, inserted, lock, pc>>

predict_image(image, override) ==
    /\ \E r \in PredictImage(knn_classifier, image, override) :
           /\ knn_classifier' = r.c
           /\ ret' = Call("predict_image", <<image, override>>, r.exc, r.value)
    /\ UNCHANGED <<disk, vote, inserted, lock, pc>>

predict_upload(image, override) ==
    /\ \E r \in PredictImage(knn_classifier, image, override) :
           /\ knn_classifier' = r.c
           /\ ret' = Call("predict_upload", <<image, override>>, r.exc, r.value)
    /\ UNCHANGED <<disk, vote, inserted, lock, pc>>

NextApi ==
    \/ \E archive \in Archives : write_archive(archive)
    \/ health_check
    \/ get_model_stats
    \/ reload_model
    \/ \E image \in ApiImages, override \in Overrides : predict_image(image, override)
    \/ \E image \in ApiImages, override \in Overrides : predict_upload(image, override)
    \/ \E threshold \in Thresholds : put_model_confidence(threshold)

SpecApi == InitApi /\ [][NextApi]_vars

---------------------------------------------------------------------------
\* The voting step of predict alone, on every combination of neighbours.

\* cosine distances 0, 0.2, ..., 2 and 0.5, where the confidence adjustment turns
Grid == {10 * i : i \in 0..10} \cup {One \div 2}
VoteLabels == {"apple", "banana"}

VoteInputs ==
    {[neighbor_labels |-> ls, neighbor_distances |-> ds,
      unique_labels |-> Unique(ls \o extra), threshold |-> t] :
        ls \in UNION {[1..k -> VoteLabels] : k \in 1..VoteK},
        ds \in UNION {{d \in [1..k -> Grid] : \A i \in 1..(k - 1) : d[i] <= d[i + 1]} :
                         k \in 1..VoteK},
        extra \in {<<>>, <<"cherry">>},
        t \in {0, DefaultThreshold}}

InitVote ==
    /\ vote \in {v \in VoteInputs : Len(v.neighbor_labels) = Len(v.neighbor_distances)}
    /\ knn_classifier = Construct(VoteK, DefaultThreshold, MaxCap, ResNetDim)
    /\ disk = NoFile
    /\ ret = Call("__init__", <<>>, "", FALSE)
    /\ inserted = 0
    /\ lock = Unlocked
    /\ pc = Idle

predict_vote ==
    /\ ret.op = "__init__"
    /\ ret' = Call("predict_vote", <<>>, "",
                   PredictVote(vote.neighbor_labels, vote.neighbor_distances,
                               vote.unique_labels, vote.threshold, <<>>))
    /\ UNCHANGED <<knn_classifier, disk, vote, inserted, lock, pc>>

NextVote == predict_vote

SpecVote == InitVote /\ [][NextVote]_vars

---------------------------------------------------------------------------
\* Threads calling one classifier.  pc[t] is the call thread t executes, its
\* position in it and its arguments.  A step is what a thread does between two
\* points where another thread can observe the object; the assignments of the
\* buffers in reset are taken together.  Two callers show every interleaving of
\* a pair of calls.  ret keeps the last value returned or exception raised.

Threads == {1, 2}
At(t) == pc[t].at
Frame(op, at, arg) == [op |-> op, at |-> at, arg |-> arg]
IdleFrame == Frame("", "idle", <<>>)

\* an exit of with self._lock: that leaves the lock as it is
Held(l) == l

\* with self._lock: on entry and on exit
Acquired(l, t) == [owner |-> t, count |-> l.count + 1]
Released(l) == IF l.count <= 1 THEN Unlocked ELSE [l EXCEPT !.count = @ - 1]

InitConc ==
    /\ knn_classifier = Construct(1, DefaultThreshold, MaxCap, ResNetDim)
    /\ disk = NoFile
    /\ ret = Call("__init__", <<>>, "", FALSE)
    /\ vote = NoVote
    /\ inserted = 0
    /\ lock = Unlocked
    /\ pc = [t \in Threads |-> IdleFrame]

\* a thread enters one of the public operations
call(t, op, arg) ==
    /\ At(t) = "idle"
    /\ op \in {"add_sample", "add_feedback_sample"} => inserted < MaxAdds
    /\ pc' = [pc EXCEPT ![t] =
                Frame(op,
                      CASE op = "reset" -> "clear"
                        [] op = "update_confidence_threshold" -> "assign"
                        [] op = "get_sample_count" -> "count"
                        [] OTHER -> "acquire",
                      arg)]
    /\ UNCHANGED <<knn_classifier, disk, ret, vote, inserted, lock>>

\* with self._lock: blocks while another thread owns the lock
acquire(t) ==
    /\ At(t) \in {"acquire", "save_acquire"}
    /\ lock.owner \in {0, t}
    /\ lock' = Acquired(lock, t)
    /\ pc' = [pc EXCEPT ![t].at =
                CASE At(t) = "save_acquire" -> "write"
                  [] pc[t].op \in {"add_sample", "add_feedback_sample"} -> "append"
                  [] pc[t].op = "predict" -> "query"
                  [] pc[t].op = "save_model" -> "write"
                  [] OTHER -> "read"]
    /\ UNCHANGED <<knn_classifier, disk, ret, vote, inserted>>

\* add_sample, lines 152-172
append(t) ==
    /\ At(t) = "append"
    /\ LET r == AppendSample(knn_classifier, pc[t].arg[1], pc[t].arg[2], inserted + 1)
       IN  /\ knn_classifier' = r.c
           /\ IF r.exc # ""
              THEN /\ lock' = Released(lock)
                   /\ pc' = [pc EXCEPT ![t] = IdleFrame]
                   /\ ret' = Call(pc[t].op, pc[t].arg, r.exc, <<>>)
              ELSE /\ pc' = [pc EXCEPT ![t].at = "manage"]
                   /\ UNCHANGED <<lock, ret>>
    /\ inserted' = inserted + 1
    /\ UNCHANGED <<disk, vote>>

\* add_sample, lines 175-181, and the release of the lock
manage(t) ==
    /\ At(t) = "manage"
    /\ LET r == ManageAndRetrain(knn_classifier, TRUE)
       IN  /\ knn_classifier' = r.c
           /\ IF pc[t].op = "add_feedback_sample" /\ r.exc = ""
              THEN /\ pc' = [pc EXCEPT ![t].at = "record"]
                   /\ UNCHANGED ret
              ELSE /\ pc' = [pc EXCEPT ![t] = IdleFrame]
                   /\ ret' = IF r.exc = "" THEN ret ELSE Call(pc[t].op, pc[t].arg, r.exc, <<>>)
    /\ lock' = Released(lock)
    /\ UNCHANGED <<disk, vote, inserted>>

\* add_feedback_sample, lines 499-504
record(t) ==
    /\ At(t) = "record"
    /\ knn_classifier' = RecordFeedback(knn_classifier, pc[t].arg[3], pc[t].arg[2],
                                        "user", inserted)
    /\ pc' = [pc EXCEPT ![t].at = "autosave"]
    /\ UNCHANGED <<disk, ret, vote, inserted, lock>>

\* add_feedback_sample, lines 507-510
autosave(t) ==
    /\ At(t) = "autosave"
    /\ IF AutoSaveDue(knn_classifier)
       THEN /\ pc' = [pc EXCEPT ![t].at = "save_acquire"]
            /\ UNCHANGED ret
       ELSE /\ pc' = [pc EXCEPT ![t] = IdleFrame]
            /\ UNCHANGED ret
    /\ UNCHANGED <<knn_classifier, disk, vote, inserted, lock>>

\* predict, lines 302-363
query(t) ==
    /\ At(t) = "query"
    /\ pc' = [pc EXCEPT ![t] = IdleFrame]
    /\ lock' = Released(lock)
    /\ \E r \in Predict(knn_classifier, pc[t].arg[1]) :
           ret' = Call("predict", pc[t].arg, r.exc, r.value)
    /\ UNCHANGED <<knn_classifier, disk, vote, inserted>>

\* save_model, lines 383-405
write(t) ==
    /\ At(t) = "write"
    /\ disk' = SaveModel(knn_classifier)
    /\ lock' = Released(lock)
    /\ pc' = [pc EXCEPT ![t] = IdleFrame]
    /\ UNCHANGED <<knn_classifier, ret, vote, inserted>>

\* load_model, lines 410-451
read(t) ==
    /\ At(t) = "read"
    /\ pc' = [pc EXCEPT ![t] = IdleFrame]
    /\ lock' = Released(lock)
    /\ \E garbage \in GarbageFor(knn_classifier, disk) :
           LET r == LoadModel(knn_classifier, disk, garbage)
           IN  /\ knn_classifier' = r.c
               /\ ret' = Call("load_model", <<>>, "", r.value)
    /\ UNCHANGED <<disk, vote, inserted>>

\* reset, lines 456-459
clear(t) ==
    /\ At(t) = "clear"
    /\ knn_classifier' = [knn_classifier EXCEPT !.train = <<>>, !.buflen = 0,
                                                !.capacity = 100]
    /\ pc' = [pc EXCEPT ![t].at = "untrain"]
    /\ UNCHANGED <<disk, ret, vote, inserted, lock>>

\* reset, lines 460-462
untrain(t) ==
    /\ At(t) = "untrain"
    /\ knn_classifier' = [knn_classifier EXCEPT !.fit_X = <<>>, !.trained = FALSE]
    /\ pc' = [pc EXCEPT ![t] = IdleFrame]
    /\ UNCHANGED <<disk, ret, vote, inserted, lock>>

\* update_confidence_threshold, lines 466-467
assign(t) ==
    /\ At(t) = "assign"
    /\ knn_classifier' = UpdateConfidenceThreshold(knn_classifier, pc[t].arg[1])
    /\ pc' = [pc EXCEPT ![t] = IdleFrame]
    /\ UNCHANGED <<disk, ret, vote, inserted, lock>>

\* get_sample_count, lines 372-378: no lock is taken
count(t) ==
    /\ At(t) = "count"
    /\ ret' = Call("get_sample_count", <<>>, "", GetSampleCount(knn_classifier))
    /\ pc' = [pc EXCEPT ![t] = IdleFrame]
    /\ UNCHANGED <<knn_classifier, disk, vote, inserted, lock>>

NextConc ==
    \E t \in Threads :
        \/ \E e \in ConcEmbeddings : call(t, "add_sample", <<e, "apple">>)
        \/ \E e \in ConcEmbeddings, l \in Labels :
               call(t, "add_feedback_sample", <<e, l, "apple">>)
        \/ \E e \in ConcEmbeddings : call(t, "predict", <<e>>)
        \/ call(t, "save_model", <<>>)
        \/ call(t, "load_model", <<>>)
        \/ call(t, "reset", <<>>)
        \/ call(t, "update_confidence_threshold", <<0>>)
        \/ acquire(t)
        \/ append(t)
        \/ manage(t)
        \/ record(t)
        \/ autosave(t)
        \/ query(t)
        \/ write(t)
        \/ read(t)
        \/ clear(t)
        \/ untrain(t)
        \/ assign(t)

SpecConc == InitConc /\ [][NextConc]_vars

\* Threads that add samples while others count them.
NextCount ==
    \E t \in Threads :
        \/ \E e \in ConcEmbeddings, l \in Labels : call(t, "add_sample", <<e, l>>)
        \/ call(t, "get_sample_count", <<>>)
        \/ acquire(t)
        \/ append(t)
        \/ manage(t)
        \/ count(t)

SpecCount == InitConc /\ [][NextCount]_vars

\* Threads in the operations that take the lock, scheduled fairly: a thread
\* inside an operation takes its next step, and a thread waiting for the lock
\* gets it if the lock is free again and again.
InitLive ==
    /\ knn_classifier \in {Construct(1, DefaultThreshold, MaxCap, dim) : dim \in EmbeddingDims}
    /\ disk = NoFile
    /\ ret = Call("__init__", <<>>, "", FALSE)
    /\ vote = NoVote
    /\ inserted = 0
    /\ lock = Unlocked
    /\ pc = [t \in Threads |-> IdleFrame]

Running(t) ==
    \/ append(t)
    \/ manage(t)
    \/ record(t)
    \/ autosave(t)
    \/ query(t)
    \/ write(t)
    \/ read(t)

NextLive ==
    \E t \in Threads :
        \/ \E e \in ConcEmbeddings :
               inserted < LiveAdds /\ call(t, "add_sample", <<e, "apple">>)
        \/ \E e \in ConcEmbeddings, l \in Labels :
               inserted < LiveAdds /\ call(t, "add_feedback_sample", <<e, l, "apple">>)
        \/ \E e \in ConcEmbeddings : call(t, "predict", <<e>>)
        \/ call(t, "save_model", <<>>)
        \/ call(t, "load_model", <<>>)
        \/ acquire(t)
        \/ Running(t)

\* the scheduler runs thread t, which is past the entry of a with block: the
\* step of Running(t), always possible there, is the one step that moves
\* pc[t] on, to the next position of the operation or out of it
Scheduled(t) ==
    /\ At(t) \notin {"idle", "acquire", "save_acquire"}
    /\ pc' \in {[pc EXCEPT ![t] = IdleFrame]}
                   \cup {[pc EXCEPT ![t].at = at] :
                            at \in {"manage", "record", "autosave", "save_acquire"}}

SpecLive ==
    /\ InitLive
    /\ [][NextLive]_vars
    /\ \A t \in Threads : WF_pc(Scheduled(t)) /\ SF_pc(acquire(t))

---------------------------------------------------------------------------
\* Properties.

Classifier == knn_classifier
Returned(op) == ret.op = op /\ ret.exc = ""
TrainedStore == Classifier.trained /\ ActualSize(Classifier) > 0

\* x >= a / b for a float x and integers a, b > 0, as IEEE compares
AtLeast(x, a, b) ==
    IF x.d = 0 THEN x.n > 0 ELSE x.n * b >= a * x.d
AtMost(x, a, b) ==
    IF x.d = 0 THEN x.n < 0 ELSE x.n * b <= a * x.d

RECURSIVE ScoreSum(_, _)
\* the sum of the scores of the labels in the sequence, as a fraction
ScoreSum(all_scores, labels) ==
    IF labels = <<>> THEN Zero
    ELSE LET x == all_scores[labels[1]]
             y == ScoreSum(all_scores, Tail(labels))
         IN  Float(x.n * y.d + y.n * x.d, x.d * y.d)

\* C1: after every add_sample that returns, no label has more than
\* max_samples_per_class active samples.
C1_PerClassCountBounded ==
    Returned("add_sample") =>
        \A label \in Labels :
            Count(Classifier.train, label) <= Classifier.max_samples_per_class

\* the range add_sample evicts from: the old range and the new sample
Appended == Append(Classifier.train, Sample(ret'.arg[1], ret'.arg[2], inserted'))
\* the positions of the `excess` oldest-inserted samples of the label
OldestOf(train, label, excess) ==
    {i \in 1..Len(train) :
        /\ train[i].y = label
        /\ Cardinality({j \in 1..Len(train) :
                           train[j].y = label /\ train[j].id < train[i].id}) < excess}
\* the range without the samples at the given positions, order kept
Without(train, positions) ==
    LET kept == SelectIdx([i \in 1..Len(train) |-> i \notin positions], Len(train), 1)
    IN  [j \in 1..Len(kept) |-> train[kept[j]]]

\* C2: an add_sample that pushes its label over max_samples_per_class leaves
\* exactly the old samples and the new one without the oldest excess samples
\* of that label, in their order.
C2_EvictsOldestOfLabelOnly ==
    [][(ret'.op = "add_sample" /\ ret'.exc = "" /\ inserted' = inserted + 1)
       => LET excess == Count(Appended, ret'.arg[2]) - Classifier.max_samples_per_class
          IN  excess > 0 =>
                  Classifier'.train = Without(Appended, OldestOf(Appended, ret'.arg[2], excess))]_vars

\* C3: a classifier constructed on the archive that save_model wrote of the
\* current object holds the same samples in the same order and the same four
\* hyperparameters.
C3_SaveLoadRoundTrip ==
    [][(ret'.op = "__init__" /\ disk.exists /\ disk = SaveModel(Classifier))
       => /\ Classifier'.train = Classifier.train
          /\ Classifier'.n_neighbors = Classifier.n_neighbors
          /\ Classifier'.confidence_threshold = Classifier.confidence_threshold
          /\ Classifier'.max_samples_per_class = Classifier.max_samples_per_class
          /\ Classifier'.embedding_dim = Classifier.embedding_dim]_vars

\* C4: a thread inside a public operation holds the lock, so no two threads
\* are inside operations at once.
C4_OperationsHoldTheLock ==
    /\ \A t \in Threads : At(t) \notin {"idle", "acquire"} => lock.owner = t
    /\ Cardinality({t \in Threads : At(t) \notin {"idle", "acquire", "save_acquire"}}) <= 1

\* C5: predict on a store without samples returns "unknown", confidence 0.0,
\* no scores and is_known false, and does not raise, whatever the threshold.
C5_EmptyStorePredictsUnknown ==
    (ret.op = "predict" /\ ActualSize(Classifier) = 0) =>
        /\ ret.exc = ""
        /\ ret.value.label = Unknown
        /\ ret.value.confidence = Zero
        /\ DOMAIN ret.value.all_scores = {}
        /\ ret.value.is_known = FALSE

C5_Witness ==
    /\ ret.op = "predict"
    /\ ActualSize(Classifier) = 0
    /\ inserted > 0
    /\ Classifier.confidence_threshold = 0

C7_ConfidenceInUnitInterval ==
    (Returned("predict") /\ TrainedStore) =>
        /\ IsFinite(ret.value.confidence)
        /\ AtLeast(ret.value.confidence, 0, 1)
        /\ AtMost(ret.value.confidence, 1, 1)

\* C8: the scores predict returns on a trained store, when there are any, sum
\* to 1 and have one entry for every label among the active samples.
C8_ScoresSumToOne ==
    (Returned("predict") /\ TrainedStore /\ DOMAIN ret.value.all_scores # {}) =>
        /\ DOMAIN ret.value.all_scores = Range(LabelsOf(Classifier.train))
        /\ \A label \in DOMAIN ret.value.all_scores : IsFinite(ret.value.all_scores[label])
        /\ LET total == ScoreSum(ret.value.all_scores, Unique(LabelsOf(Classifier.train)))
           IN  total.n = total.d

\* the vote is over three neighbours labelled apple, apple, banana, the only
\* samples of the store, and the query is at distance 0 of an apple sample
C9_Case ==
    /\ ret.op = "predict_vote"
    /\ Len(vote.neighbor_labels) = 3
    /\ vote.unique_labels = <<"apple", "banana">>
    /\ Cardinality({i \in 1..3 : vote.neighbor_labels[i] = "apple"}) = 2
    /\ \E i \in 1..3 : vote.neighbor_labels[i] = "apple" /\ vote.neighbor_distances[i] = 0
C9_Predicted == PredLabel(ret.value.all_scores, vote.unique_labels)
\* the distances of the banana sample and of the apple sample farther from the query
C9_BananaDistance ==
    vote.neighbor_distances[CHOOSE i \in 1..3 : vote.neighbor_labels[i] = "banana"]
C9_OtherAppleDistance ==
    vote.neighbor_distances[CHOOSE i \in 1..3 :
        /\ vote.neighbor_labels[i] = "apple"
        /\ \A j \in 1..3 : vote.neighbor_labels[j] = "apple" => j <= i]

\* C9 as claimed: the query is predicted apple with score at least 2/3,
\* whatever its distances to the other apple sample and to the banana sample.
C9_Original ==
    C9_Case => /\ C9_Predicted = "apple"
               /\ AtLeast(ret.value.all_scores["apple"], 2, 3)

\* C9 amended: with d_a the distance to the other apple sample and d_b the
\* distance to the banana sample, the query is predicted apple with score at
\* least 2/3 exactly when d_a <= 2 * d_b and d_a + d_b < 3.
C9_AppleWinsBySimilarityWeight ==
    C9_Case =>
        ((/\ C9_Predicted = "apple"
          /\ IsFinite(ret.value.all_scores["apple"])
          /\ AtLeast(ret.value.all_scores["apple"], 2, 3))
         <=> (/\ C9_OtherAppleDistance <= 2 * C9_BananaDistance
              /\ C9_OtherAppleDistance + C9_BananaDistance < 3 * One))

C9_Witness ==
    /\ C9_Case
    /\ C9_BananaDistance = 10
    /\ C9_OtherAppleDistance = 2 * 10
    /\ C9_Predicted = "apple"
    /\ AtLeast(ret.value.all_scores["apple"], 2, 3)
    /\ AtMost(ret.value.all_scores["apple"], 2, 3)

\* C10: update_confidence_threshold with a value outside [0,1] raises and
\* leaves confidence_threshold as it was.
C10_OutOfRangeThresholdRejected ==
    [][(ret'.op = "update_confidence_threshold"
        /\ (ret'.arg[1] < 0 \/ ret'.arg[1] > One))
       => /\ ret'.exc # ""
          /\ Classifier'.confidence_threshold = Classifier.confidence_threshold]_vars

\* C11: an add_feedback_sample that returns appends one FeedbackRecord of its
\* labels to the ledger and leaves its sample (embedding, correct_label) as the
\* newest of the store, every other sample being one the store already held.
C11_FeedbackAddsOneRecordAndOneSample ==
    [][(ret'.op = "add_feedback_sample" /\ ret'.exc = "" /\ inserted' = inserted + 1)
       => LET before == Classifier.feedback_history
              after == Classifier'.feedback_history
              store == Classifier'.train
          IN  /\ Len(after) = Len(before) + 1
              /\ SubSeq(after, 1, Len(before)) = before
              /\ after[Len(after)].predicted = ret'.arg[2]
              /\ after[Len(after)].correct = ret'.arg[3]
              /\ Len(store) > 0
              /\ store[Len(store)] = Sample(ret'.arg[1], ret'.arg[3], inserted')
              /\ \A i \in 1..(Len(store) - 1) :
                     \E j \in 1..ActualSize(Classifier) : Classifier.train[j] = store[i]]_vars

C11_Witness ==
    /\ Returned("add_feedback_sample")
    /\ ret.arg[2] = ret.arg[3]
    /\ Classifier.max_samples_per_class = 1
    /\ Len(Classifier.feedback_history) = 2
    /\ Classifier.feedback_history[1].correct = ret.arg[3]
    /\ ActualSize(Classifier) = 1
    /\ Classifier.train[1].id = 2

\* C12: an add_feedback_sample that returns with auto_save on has saved the
\* store exactly when the number of active samples is a multiple of
\* save_interval.
C12_AutoSaveEveryIntervalSamples ==
    [][(ret'.op = "add_feedback_sample" /\ ret'.exc = "" /\ inserted' = inserted + 1
        /\ Classifier'.auto_save)
       => (ret'.value <=> ActualSize(Classifier') % Classifier'.save_interval = 0)]_vars

\* C13: load_model with no file at the path returns False, raises nothing and
\* leaves every field of the classifier as it was.
C13_LoadOfMissingFileChangesNothing ==
    [][(ret'.op = "load_model" /\ ~disk.exists)
       => /\ ret'.exc = ""
          /\ ret'.value = FALSE
          /\ Classifier' = Classifier]_vars

C13_Witness ==
    /\ ret.op = "load_model"
    /\ ~disk.exists
    /\ ret.value = FALSE
    /\ ActualSize(Classifier) > 0
    /\ Classifier.trained

\* C14: the number of active samples never exceeds the length of the buffers,
\* which never exceeds the recorded capacity.
C14_SizeWithinBufferWithinCapacity ==
    /\ ActualSize(Classifier) <= Classifier.buflen
    /\ Classifier.buflen <= Classifier.capacity

C14_Witness ==
    /\ Returned("add_samples_from_directory")
    /\ ActualSize(Classifier) > initial_size
    /\ Classifier.buflen = 2 * initial_size
    /\ Classifier.capacity = 2 * initial_size

\* C15 as claimed: no step other than a reset lowers the capacity.
C15_Original ==
    [][ret'.op # "reset" => Classifier'.capacity >= Classifier.capacity]_vars

\* C15 amended: no step other than a reset or a load_model lowers the
\* capacity; a step that adds samples leaves it or at least doubles it; a
\* load_model of an archive of n samples sets it to max(100, 2 * n).
C15_CapacityLoweredOnlyByResetAndLoad ==
    [][/\ ret'.op \notin {"reset", "load_model"}
              => Classifier'.capacity >= Classifier.capacity
       /\ ret'.op \in {"add_sample", "add_samples_from_directory"}
              => \/ Classifier'.capacity = Classifier.capacity
                 \/ Classifier'.capacity >= 2 * Classifier.capacity
       /\ (ret'.op = "load_model" /\ disk.exists)
              => Classifier'.capacity = Max(initial_size, 2 * Len(disk.X_train))]_vars

C15_Witness ==
    /\ Returned("add_samples_from_directory")
    /\ Classifier.capacity = 2 * initial_size
    /\ ActualSize(Classifier) = DefaultMaxSamples
    /\ disk.exists
    /\ Len(disk.X_train) < initial_size \div 2

\* C16: get_known_classes returns the distinct labels of the active samples,
\* the keys of get_sample_count.
C16_KnownClassesAreTheActiveLabels ==
    Returned("get_known_classes") =>
        /\ Range(ret.value) = Range(LabelsOf(Classifier.train))
        /\ Range(ret.value) = DOMAIN GetSampleCount(Classifier)

\* C17: when two add_feedback_sample calls were the only insertions and both
\* samples are in the store, the ledger lists the corrections in the order in
\* which their samples were inserted.
C17_LedgerOrderIsInsertionOrder ==
    (/\ inserted = 2
     /\ Len(Classifier.feedback_history) = 2
     /\ ActualSize(Classifier) = 2
     /\ Classifier.train[1].id = 1
     /\ Classifier.train[2].id = 2)
        => \A i \in 1..2 : Classifier.feedback_history[i].correct = Classifier.train[i].y

\* C18: every step leaves the FeedbackRecords of the ledger where and as they
\* were; the ledger only grows at its end.
C18_LedgerAppendOnly ==
    [][/\ Len(Classifier'.feedback_history) >= Len(Classifier.feedback_history)
       /\ SubSeq(Classifier'.feedback_history, 1, Len(Classifier.feedback_history))
              = Classifier.feedback_history]_vars

C18_Witness ==
    /\ ret.op \in {"reset", "load_model"}
    /\ Len(Classifier.feedback_history) = 2
    /\ ActualSize(Classifier) < 2

\* C19: get_accuracy_stats returns {} on an empty ledger, and otherwise the
\* ledger length, the number of records with predicted = correct, their
\* quotient and the number of distinct correct labels, so that
\* correct_predictions <= total_feedback and
\* 1 <= unique_corrections <= total_feedback.
C19_AccuracyStatsOfLedger ==
    Returned("get_accuracy_stats") =>
        LET ledger == Classifier.feedback_history
            stats == ret.value
        IN  IF Len(ledger) = 0 THEN stats = <<>>
            ELSE /\ stats.total_feedback = Len(ledger)
                 /\ stats.correct_predictions =
                        Cardinality({i \in 1..Len(ledger) :
                                        ledger[i].predicted = ledger[i].correct})
                 /\ IsFinite(stats.accuracy)
                 /\ stats.accuracy.n * stats.total_feedback
                        = stats.correct_predictions * stats.accuracy.d
                 /\ stats.unique_corrections =
                        Cardinality({ledger[i].correct : i \in 1..Len(ledger)})
                 /\ stats.correct_predictions <= stats.total_feedback
                 /\ 1 <= stats.unique_corrections
                 /\ stats.unique_corrections <= stats.total_feedback

C19_Witness ==
    /\ Returned("get_accuracy_stats")
    /\ Len(Classifier.feedback_history) = 2
    /\ ret.value.correct_predictions = 1
    /\ ret.value.unique_corrections = 2

\* C20: the classifier becomes trained, and its index is fitted, only in an
\* add_sample asked to retrain that leaves at least n_neighbors active
\* samples; a predict on an untrained classifier returns the empty-store
\* result and raises nothing.
C20_FittedOnlyWithEnoughSamples ==
    [][/\ (~Classifier.trained /\ Classifier'.trained)
              => /\ ret'.op = "add_sample"
                 /\ ret'.arg[3]
                 /\ ActualSize(Classifier') >= Classifier'.n_neighbors
       /\ (ret'.op = "add_sample" /\ Classifier'.fit_X # Classifier.fit_X)
              => ActualSize(Classifier') >= Classifier'.n_neighbors
       /\ (ret'.op = "predict" /\ ~Classifier.trained)
              => /\ ret'.exc = ""
                 /\ ret'.value.label = Unknown
                 /\ ret'.value.confidence = Zero
                 /\ DOMAIN ret'.value.all_scores = {}]_vars

C20_Witness ==
    /\ Returned("predict")
    /\ ~Classifier.trained
    /\ Classifier.n_neighbors = 2
    /\ ActualSize(Classifier) = 1
    /\ Classifier.train[1].id = 2
    /\ ret.value.label = Unknown

\* the labels no label scores more than, when every score is a finite number
C21_Tied ==
    {l \in Range(vote.unique_labels) :
        \A m \in Range(vote.unique_labels) :
            /\ IsFinite(ret.value.all_scores[m])
            /\ ~Gt(ret.value.all_scores[m], ret.value.all_scores[l])}
\* the neighbours of a label, and the sum of their distances to the query
C21_Neighbors(l) == {i \in 1..Len(vote.neighbor_labels) : vote.neighbor_labels[i] = l}
C21_DistanceSum(l) ==
    SumSeq([i \in 1..Len(vote.neighbor_labels) |->
               IF vote.neighbor_labels[i] = l THEN vote.neighbor_distances[i] ELSE 0])
\* the place of a label in lexical order
C21_Rank(l) == CHOOSE i \in 1..Len(LabelOrder) : LabelOrder[i] = l
\* label a comes before label b: smaller mean distance of its neighbours, and
\* lexical order when the means are equal
C21_Before(a, b) ==
    LET mean_a == C21_DistanceSum(a) * Cardinality(C21_Neighbors(b))
        mean_b == C21_DistanceSum(b) * Cardinality(C21_Neighbors(a))
    IN  mean_a < mean_b \/ (mean_a = mean_b /\ C21_Rank(a) < C21_Rank(b))

\* C21: when two or more labels with neighbours share the maximal score, the
\* predicted label is the one of them with the smallest mean neighbour
\* distance, and among equal means the lexically smallest.
C21_TieBrokenByMeanDistance ==
    (/\ ret.op = "predict_vote"
     /\ Cardinality(C21_Tied) >= 2
     /\ \A l \in C21_Tied : C21_Neighbors(l) # {})
        => \A l \in C21_Tied \ {PredLabel(ret.value.all_scores, vote.unique_labels)} :
               C21_Before(PredLabel(ret.value.all_scores, vote.unique_labels), l)

\* two floats are the same number, or the same IEEE special value
C22_Same(x, y) ==
    IF x.d = 0 \/ y.d = 0 THEN x = y ELSE x.n * y.d = y.n * x.d
\* np.sum(similarities[neighbor_labels == label]) of the vote, undecayed
C22_Part(label) ==
    SumSeq([i \in 1..Len(vote.neighbor_labels) |->
               IF vote.neighbor_labels[i] = label THEN One - vote.neighbor_distances[i] ELSE 0])
C22_Total ==
    SumSeq([i \in 1..Len(vote.neighbor_distances) |-> One - vote.neighbor_distances[i]])

\* C22: with d the distance of the nearest neighbour and s the score of the
\* winning label, the confidence is s * (1 - d) when d > 0.5 and s when
\* d <= 0.5; every returned score is the label's share of the similarities,
\* not decayed.
C22_ConfidenceDecaysAboveHalf ==
    (ret.op = "predict_vote" /\ vote.unique_labels # <<>>) =>
        LET d == vote.neighbor_distances[1]
            s == ret.value.all_scores[PredLabel(ret.value.all_scores, vote.unique_labels)]
        IN  /\ 2 * d > One =>
                   C22_Same(ret.value.confidence,
                            IF s.d = 0 THEN Float(Sign(s.n * (One - d)), 0)
                            ELSE Float(s.n * (One - d), s.d * One))
            /\ 2 * d <= One => ret.value.confidence = s
            /\ \A label \in Range(vote.unique_labels) :
                   C22_Same(ret.value.all_scores[label],
                            IF \E i \in 1..Len(vote.neighbor_labels) :
                                   vote.neighbor_labels[i] = label
                            THEN Div(C22_Part(label), C22_Total)
                            ELSE Zero)

C22_Witness ==
    /\ ret.op = "predict_vote"
    /\ 2 * vote.neighbor_distances[1] = One
    /\ Len(vote.neighbor_distances) = 2
    /\ vote.neighbor_distances[2] > One
    /\ IsFinite(ret.value.confidence)
    /\ ret.value.confidence.n > ret.value.confidence.d
    /\ ret.value.confidence = ret.value.all_scores[vote.neighbor_labels[1]]

\* C23: reset leaves no active sample, capacity 100 and an untrained
\* classifier, so that get_sample_count and get_known_classes are empty and
\* predict returns the empty-store result; n_neighbors, confidence_threshold,
\* max_samples_per_class and the feedback ledger stay as they were.
C23_ResetEmptiesStoreOnly ==
    [][ret'.op = "reset"
       => /\ ActualSize(Classifier') = 0
          /\ Classifier'.capacity = initial_size
          /\ ~Classifier'.trained
          /\ DOMAIN GetSampleCount(Classifier') = {}
          /\ GetKnownClasses(Classifier') = [exc |-> "", value |-> <<>>]
          /\ \A image \in Embeddings :
                 Predict(Classifier', image) = {[exc |-> "", value |-> UntrainedRecognition]}
          /\ Classifier'.n_neighbors = Classifier.n_neighbors
          /\ Classifier'.confidence_threshold = Classifier.confidence_threshold
          /\ Classifier'.max_samples_per_class = Classifier.max_samples_per_class
          /\ Classifier'.feedback_history = Classifier.feedback_history]_vars

C23_Witness ==
    /\ ret.op = "reset"
    /\ inserted >= 2
    /\ Len(Classifier.feedback_history) >= 1
    /\ disk.exists
    /\ Len(disk.X_train) >= 1
    /\ ActualSize(Classifier) = 0

\* C24: an add_sample or add_feedback_sample whose image the extractor raises
\* on, or whose classifier has an embedding_dim the embedding does not match,
\* raises and leaves the active samples as they were; the add_feedback_sample
\* appends no FeedbackRecord and saves nothing.
C24_FailedAddChangesNoSample ==
    [][(/\ ret'.op \in {"add_sample", "add_feedback_sample"}
        /\ inserted' = inserted + 1
        /\ (ret'.arg[1] = Unreadable \/ Classifier.embedding_dim # ResNetDim))
       => /\ ret'.exc # ""
          /\ Classifier'.train = Classifier.train
          /\ Classifier'.feedback_history = Classifier.feedback_history
          /\ disk' = disk
          /\ ret'.op = "add_feedback_sample" => ret'.value = FALSE]_vars

C24_Witness ==
    /\ ret.op = "add_feedback_sample"
    /\ ret.exc = "ValueError"
    /\ Classifier.embedding_dim # ResNetDim
    /\ ActualSize(Classifier) >= 1
    /\ Classifier.feedback_history = <<>>

\* C25: whenever predict passes its untrained/empty check, the index was
\* fitted on exactly the active samples, so that the min(n_neighbors, size)
\* neighbours it asks for exist and predict raises nothing.
C25_IndexFittedOnActiveSamples ==
    TrainedStore =>
        /\ Classifier.fit_X = EmbeddingsOf(Classifier.train)
        /\ Min(Classifier.n_neighbors, ActualSize(Classifier)) <= Len(Classifier.fit_X)
        /\ \A image \in Embeddings : \A r \in Predict(Classifier, image) : r.exc = ""

\* the classifier a load_model call started from: the object itself, or for
\* the load_model that ends __init__ the object just constructed
C26_Before ==
    IF ret'.op = "__init__"
    THEN Construct(ret'.arg[1], DefaultThreshold, ret'.arg[2], ret'.arg[3])
    ELSE Classifier

\* C26: a load_model that returns False leaves the active samples, the size,
\* the capacity, n_neighbors, confidence_threshold and max_samples_per_class
\* as they were before the call.
C26_FailedLoadChangesNothing ==
    [][(ret'.op \in {"load_model", "__init__"} /\ ret'.value = FALSE)
       => /\ Classifier'.train = C26_Before.train
          /\ Classifier'.capacity = C26_Before.capacity
          /\ Classifier'.n_neighbors = C26_Before.n_neighbors
          /\ Classifier'.confidence_threshold = C26_Before.confidence_threshold
          /\ Classifier'.max_samples_per_class = C26_Before.max_samples_per_class]_vars

\* C27: a /predict or /predict/upload request that carries a
\* confidence_threshold leaves the classifier's confidence_threshold as it was
\* before the request, whether it answers with a prediction or with an error.
C27_OverrideRestored ==
    [][(ret'.op \in {"predict_image", "predict_upload"} /\ ret'.arg[2] # <<>>)
       => Classifier'.confidence_threshold = Classifier.confidence_threshold]_vars

\* C28: a get_sample_count that runs while other threads add samples returns
\* no count above max_samples_per_class: the range between the append and the
\* eviction of add_sample is not visible to it.
C28_CountNeverAboveMaximum ==
    ret.op = "get_sample_count" =>
        \A label \in DOMAIN ret.value :
            ret.value[label] <= Classifier.max_samples_per_class

\* C29: a thread that has returned from an operation holds the lock no
\* longer, the lock is free when no thread is inside an operation, and under
\* fair scheduling every thread inside an operation returns from it.
C29_EveryCallReturnsAndFreesTheLock ==
    /\ [](\A t \in Threads : At(t) = "idle" => lock.owner # t)
    /\ []((\A t \in Threads : At(t) = "idle") => lock = Unlocked)
    /\ \A t \in Threads : (At(t) # "idle") ~> (At(t) = "idle")

C29_Witness ==
    /\ \A t \in Threads : At(t) = "idle"
    /\ lock = Unlocked
    /\ ret.op = "load_model"
    /\ ret.value = TRUE
    /\ Len(Classifier.feedback_history) >= 1
    /\ disk.exists

RECURSIVE C30_Sum(_, _)
\* the sum of the counts of the labels in the set
C30_Sum(counts, labels) ==
    IF labels = {} THEN 0
    ELSE LET l == CHOOSE l \in labels : TRUE
         IN  counts[l] + C30_Sum(counts, labels \ {l})

\* C30: the total_samples of a health check, /model/stats or /model/reload
\* response is the number of active samples, the sum of the per-class counts
\* of get_sample_count.
C30_TotalSamplesIsActiveCount ==
    (ret.op \in {"health_check", "get_model_stats", "reload_model"} /\ ret.exc = "") =>
        /\ ret.value.total_samples = ActualSize(Classifier)
        /\ ret.value.total_samples
               = C30_Sum(GetSampleCount(Classifier), DOMAIN GetSampleCount(Classifier))

====
